---- MODULE Spec2Model ----
(***************************************************************************)
(* tiny-dfr: the display backend, the hit test, the touch router and the   *)
(* control loop of src/main.rs.                                            *)
(*                                                                         *)
(* Coordinates are exact rationals.  A touch position is a pair <<x, y>>   *)
(* of integers, x counted in 1/XDen of a pixel and y in 1/YDen of a pixel, *)
(* so that every edge of a button of the 12-button layer is an integer.    *)
(* The f64 arithmetic of button_hit is modelled by exact arithmetic on     *)
(* these rationals (cross-multiplied comparisons).                         *)
(***************************************************************************)
EXTENDS Integers, Sequences, FiniteSets, TLC

(* ------------------------------------------------------------------ *)
(* Program constants                                                   *)
(* ------------------------------------------------------------------ *)
DFR_WIDTH == 2008
DFR_HEIGHT == 64

\* grey shades of a button, in thousandths (0.267 and 0.567)
BUTTON_COLOR_INACTIVE == 267
BUTTON_COLOR_ACTIVE == 567

\* the literal 12 of main (vec![false; 12], x / (DFR_WIDTH / 12.0), button_hit(12, ..))
NumButtons == 12

\* layer.buttons: the twelve buttons of the function layer, left to right
layer_buttons ==
    << [text |-> "F1",  action |-> "F1"],  [text |-> "F2",  action |-> "F2"],
       [text |-> "F3",  action |-> "F3"],  [text |-> "F4",  action |-> "F4"],
       [text |-> "F5",  action |-> "F5"],  [text |-> "F6",  action |-> "F6"],
       [text |-> "F7",  action |-> "F7"],  [text |-> "F8",  action |-> "F8"],
       [text |-> "F9",  action |-> "F9"],  [text |-> "F10", action |-> "F10"],
       [text |-> "F11", action |-> "F11"], [text |-> "F12", action |-> "F12"] >>

\* mutant: the action of the neighbouring button
action_Neighbour(btn) == layer_buttons[((btn + 1) % NumButtons) + 1].action

\* layer.buttons[btn].action, btn counted from 0 as in the source
action(btn) == layer_buttons[btn + 1].action

(* ------------------------------------------------------------------ *)
(* Bounds of the model                                                 *)
(* ------------------------------------------------------------------ *)
\* number of seat slots (concurrent touch contacts) the input delivers
NumSlots == 2

Slots == 0 .. (NumSlots - 1)

\* largest button count the hit test is probed with, besides the 12 of main
MaxNum == 4

HitNums == (1 .. MaxNum) \cup {NumButtons}

\* denominators of the coordinate grid
XDen == 13 * 13
YDen == 10 * 10

Pt(xpx, ypx) == <<xpx * XDen, ypx * YDen>>

\* Touch positions delivered by the input subsystem (pixels):
\*   (50, 32)   inside button 0            (90, 32)  inside button 0 as well
\*   (200, 32)  inside button 1
\*   (170, 32)  bucket 1, in the gap left of button 1 (miss)
\*   (50, 0)    x inside button 0, y above the vertical band (miss)
Points == { Pt(50, 32), Pt(200, 32), Pt(170, 32), Pt(50, 0) }

\* input devices of the seat: "TouchBar" is the digitizer, "Other" is another
\* touch device whose name does not contain the expected substring
Devices == {"TouchBar", "Other"}
NoDevice == "NoDevice"

\* dev.name().contains("MacBookPro17,1 Touch Bar")
NameContainsTouchBar(dev) == dev = "TouchBar"

(* ------------------------------------------------------------------ *)
(* Geometry                                                            *)
(* ------------------------------------------------------------------ *)
\* mutant: no test against the right edge of the button
button_hit_NoRightEdge(num, idx, xn, yn) ==
    LET sq == (num + 1) * (num + 1)
        left_edge == idx * (DFR_WIDTH * (num + 1) + DFR_WIDTH) + DFR_WIDTH
    IN  /\ xn * sq >= left_edge * XDen
        /\ yn * 100 > 9 * DFR_HEIGHT * YDen
        /\ yn * 100 < 91 * DFR_HEIGHT * YDen

\* button_hit(num, idx, x, y) with x = xn / XDen and y = yn / YDen.
\* All widths are multiplied by (num + 1)^2:
\*   button_width  = W / (num+1)                    ->  W * (num+1)
\*   spacing_width = (W - num*button_width)/(num+1) ->  W
\*   left_edge     = idx*(button_width+spacing_width)+spacing_width
button_hit(num, idx, xn, yn) ==
    LET sq == (num + 1) * (num + 1)
        button_width == DFR_WIDTH * (num + 1)
        spacing_width == (DFR_WIDTH * sq - num * button_width) \div (num + 1)
        left_edge == idx * (button_width + spacing_width) + spacing_width
    IN  IF \/ xn * sq < left_edge * XDen
           \/ xn * sq > (left_edge + button_width) * XDen
        THEN FALSE
        ELSE /\ yn * 100 > 9 * DFR_HEIGHT * YDen
             /\ yn * 100 < 91 * DFR_HEIGHT * YDen

\* mutant: the bucket is one button width wide (W / 13) instead of W / 12
candidate_ButtonWidth(xn) ==
    IF xn < 0 THEN 0 ELSE ((NumButtons + 1) * xn) \div (DFR_WIDTH * XDen)

\* (x / (DFR_WIDTH as f64 / 12.0)) as u32 : truncation towards zero, and a
\* negative value saturates to 0
candidate(xn) ==
    IF xn < 0 THEN 0 ELSE (NumButtons * xn) \div (DFR_WIDTH * XDen)

(* ------------------------------------------------------------------ *)
(* State                                                               *)
(* ------------------------------------------------------------------ *)
VARIABLES
    button_state,   \* vec of 12 booleans, indexed 0..11
    needs_redraw,   \* the redraw flag
    digitizer,      \* Option<InputDevice>: NoDevice or a device
    touches,        \* HashMap slot -> button index
    pc,             \* position of the control loop
    drm,            \* the display backend: mode, dumb buffer, framebuffer
    out,            \* events written to uinput by the last step
    last_written,   \* type of the last event ever written to uinput
    \* the input subsystem
    contact,        \* seat slots on which a contact of the Touch Bar is down
    \* history of the run, read only by the properties
    step,           \* the step just taken: a loop step or the event handled
    last_motion,    \* slot and position of the last event handled, if a Motion
    ever_hit,       \* slots that have had a hitting Down
    watch           \* one handled Down, chosen freely, and what has happened since

prog == <<button_state, needs_redraw, digitizer, touches, pc, drm, out, last_written>>
hist == <<contact, step, last_motion, ever_hit, watch>>
vars == <<button_state, needs_redraw, digitizer, touches, pc, drm, out,
          last_written, contact, step, last_motion,
          ever_hit, watch>>

NoWatch == [kind |-> "None"]
NoMotion == << >>

\* emit(uinput, ty, code, value): one event appended to the written stream
emit(stream, ty, code, value) ==
    Append(stream, [type |-> ty, code |-> code, value |-> value])

\* mutant: the key event without its sync report
KeyReport_NoSync(code, value) == emit(<<>>, "Key", code, value)

\* emit(.., EventKind::Key, code, value); emit(.., EventKind::Synchronize, Report, 0)
KeyReport(code, value) ==
    emit(emit(<<>>, "Key", code, value), "Synchronize", "Report", 0)

LastType(stream, before) ==
    IF stream = <<>> THEN before ELSE stream[Len(stream)].type

Insert(map, key, val) ==
    [k \in (DOMAIN map) \cup {key} |-> IF k = key THEN val ELSE map[k]]

\* mutant: the value of a press, whatever the hit test said
Bool2Int_Press(b) == 1

\* hit as i32
Bool2Int(b) == IF b THEN 1 ELSE 0

(* ------------------------------------------------------------------ *)
(* The display backend (try_open_card, DrmBackend)                     *)
(* ------------------------------------------------------------------ *)
\* drm is the record of the display resources of the process:
\*   size      mode.size() of the first mode: <<width, height>>
\*   db, fb    the dumb buffer and the framebuffer: "none", "live", "destroyed"
\*   owned     the handles are held by a DrmBackend value (line 231)
\*   at        the step of try_open_card to run next (index in SetupSteps)
\*   calls     the destroy calls made so far, in order
\*   err       how try_open_card ended
\* the threshold of line 149
MinRatio == 30

\* mutant: the ratio of width to height
LooksLikeTouchbar_Swapped(size) ==
    LET disp_width == size[1]
        disp_height == size[2]
    IN  ~(disp_width \div disp_height < MinRatio)

\* let (disp_width, disp_height) = mode.size();
\* if disp_height / disp_width < 30 { return Err(..) }     (u16 division)
LooksLikeTouchbar(size) ==
    LET disp_width == size[1]
        disp_height == size[2]
    IN  ~(disp_height \div disp_width < MinRatio)

\* the fallible calls of try_open_card after create_dumb_buffer, in order
\* (lines 156-228); each is followed by unwrap()
SetupSteps ==
    << "add_framebuffer", "plane_handles", "find_prop_id", "create_property_blob",
       "find_prop_id", "find_prop_id", "find_prop_id", "find_prop_id",
       "find_prop_id", "find_prop_id", "find_prop_id", "find_prop_id",
       "find_prop_id", "find_prop_id", "find_prop_id", "find_prop_id",
       "find_prop_id", "atomic_commit" >>

\* sizes <<width, height>> the first mode of the connected output can report
Modes == { <<64, 2008>>, <<2008, 64>>, <<1920, 1080>>, <<64, 1919>>, <<64, 1920>> }

\* try_open_card is entered: nothing is allocated yet
Unopened(size) ==
    [size |-> size, db |-> "none", fb |-> "none", owned |-> FALSE,
     at |-> 0, calls |-> << >>, err |-> "None"]

\* Ok(DrmBackend { card, db, fb }) for a mode of the given size
Opened(size) ==
    [size |-> size, db |-> "live", fb |-> "live", owned |-> TRUE,
     at |-> Len(SetupSteps) + 1, calls |-> << >>, err |-> "None"]

\* impl Drop for DrmBackend: destroy_framebuffer, then destroy_dumb_buffer
Drop(d) ==
    [d EXCEPT !.fb = "destroyed", !.db = "destroyed",
              !.calls = d.calls \o << "destroy_framebuffer", "destroy_dumb_buffer" >>]

\* A panic unwinds the stack: a DrmBackend value is dropped; the plain handles
\* db and fb of try_open_card are forgotten (they have no destructor)
Unwind(d) == IF d.owned THEN Drop(d) ELSE d

(* ------------------------------------------------------------------ *)
(* Initial state: main up to the head of the loop (lines 276-323)      *)
(* ------------------------------------------------------------------ *)
Init ==
    /\ button_state = [i \in 0 .. (NumButtons - 1) |-> FALSE]
    /\ needs_redraw = TRUE
    /\ digitizer = NoDevice
    /\ touches = << >>
    /\ pc = "loop"
    /\ drm = Opened(<<DFR_HEIGHT, DFR_WIDTH>>)
    /\ out = << >>
    /\ last_written = "None"
    /\ contact = {}
    /\ step = [kind |-> "Start"]
    /\ last_motion = NoMotion
    /\ ever_hit = {}
    /\ watch = NoWatch

(* ------------------------------------------------------------------ *)
(* Control loop (lines 324-334, 392)                                   *)
(* ------------------------------------------------------------------ *)
\* mutant: every button is painted in the inactive shade
draw_AllInactive(active_buttons, dim) ==
    [i \in DOMAIN active_buttons |-> BUTTON_COLOR_INACTIVE * dim]

\* FunctionLayer::draw: the shade each button is filled with, left to right
draw(active_buttons, dim) ==
    [i \in DOMAIN active_buttons |->
        (IF active_buttons[i] THEN BUTTON_COLOR_ACTIVE ELSE BUTTON_COLOR_INACTIVE) * dim]

\* if needs_redraw { needs_redraw = false; draw; copy; dirty_framebuffer }
RedrawBlock ==
    /\ pc = "loop"
    /\ IF needs_redraw
       THEN /\ needs_redraw' = FALSE
            /\ step' = [kind |-> "Redraw"]
       ELSE /\ UNCHANGED needs_redraw
            /\ step' = [kind |-> "NoRedraw"]
    /\ pc' = "dispatch"
    /\ out' = << >>
    /\ UNCHANGED <<button_state, digitizer, touches, drm, last_written>>
    /\ UNCHANGED <<contact, last_motion, ever_hit>>

Redraw == RedrawBlock /\ UNCHANGED watch

\* the frame on the display after the block: the one it presents, or the one
\* presented before
Presented ==
    IF needs_redraw
    THEN [kind |-> "Frame", shown |-> draw(button_state, 1)]
    ELSE watch

\* input.dispatch() returns with a batch of pending events
Dispatch ==
    /\ pc = "dispatch"
    /\ pc' = "drain"
    /\ out' = << >>
    /\ step' = [kind |-> "Dispatch"]
    /\ UNCHANGED <<button_state, needs_redraw, digitizer, touches, drm, last_written>>
    /\ UNCHANGED <<contact, last_motion, ever_hit, watch>>

\* the iterator over the batch is exhausted: back to the head of the loop
EndBatch ==
    /\ pc = "drain"
    /\ pc' = "loop"
    /\ out' = << >>
    /\ step' = [kind |-> "EndBatch"]
    /\ UNCHANGED <<button_state, needs_redraw, digitizer, touches, drm, last_written>>
    /\ UNCHANGED <<contact, last_motion, ever_hit, watch>>

(* ------------------------------------------------------------------ *)
(* Event routing (lines 334-391)                                       *)
(* ------------------------------------------------------------------ *)
\* mutant: no check of the device
FromDigitizer_Any(dev) == TRUE

\* if Some(te.device()) != digitizer { continue }
FromDigitizer(dev) == dev = digitizer

\* mutant: the candidate is accepted without the hit test
DownAccepts_Always(btn, x, y) == TRUE

\* if button_hit(12, btn, x, y)
DownAccepts(btn, x, y) == button_hit(NumButtons, btn, x, y)

\* mutant: every Motion counts as a change
MotionChanges_Always(btn, hit) == TRUE

\* if button_state[btn as usize] != hit
MotionChanges(btn, hit) == button_state[btn] # hit

\* mutant: the index is stored counted from 1
DownTouches_OneBased(slot, btn) == Insert(touches, slot, btn + 1)

\* mutant: an existing entry of the slot is kept (entry(slot).or_insert(btn))
DownTouches_KeepEntry(slot, btn) ==
    IF slot \in DOMAIN touches THEN touches ELSE Insert(touches, slot, btn)

\* touches.insert(dn.seat_slot(), btn): the entry of the slot is overwritten
DownTouches(slot, btn) == Insert(touches, slot, btn)

\* mutant: every Up of a tracked slot releases
UpReleases_Always(btn) == TRUE

\* if button_state[btn]
UpReleases(btn) == button_state[btn]

\* let btn = *touches.get(&mtn.seat_slot()).unwrap()
MotionButton(slot) == touches[slot]

\* mutant: the entry of some slot of the map, not of the slot of the event
UpButton_AnySlot(slot) == touches[CHOOSE s \in DOMAIN touches : TRUE]

\* let btn = *touches.get(&up.seat_slot()).unwrap() as usize
UpButton(slot) == touches[slot]

\* mutant: a Motion onto another button rebinds the slot to it
MotionTouches_Rebind(slot, x, y) ==
    IF button_hit(NumButtons, candidate(x), x, y)
    THEN Insert(touches, slot, candidate(x))
    ELSE touches

\* the slot map after the Motion arm: the arm never writes to it
MotionTouches(slot, x, y) == touches

\* the slot map after the Up arm: the arm only reads it (no remove)
UpTouches(slot) == touches

\* an event that is dropped: nothing is written and nothing changes
Dropped ==
    /\ out' = << >>
    /\ UNCHANGED <<button_state, needs_redraw, touches>>

\* Event::Device(DeviceEvent::Added(evt))
DeviceAdded(dev) ==
    /\ pc = "drain"
    /\ digitizer' = IF NameContainsTouchBar(dev) THEN dev ELSE digitizer
    /\ out' = << >>
    /\ UNCHANGED <<button_state, needs_redraw, touches, pc, drm, last_written>>

\* TouchEvent::Down(dn)
TouchDown(dev, slot, x, y) ==
    /\ pc = "drain"
    /\ IF ~FromDigitizer(dev)
       THEN Dropped
       ELSE LET btn == candidate(x) IN
            IF DownAccepts(btn, x, y)
            THEN /\ touches' = DownTouches(slot, btn)
                 /\ button_state' = [button_state EXCEPT ![btn] = TRUE]
                 /\ needs_redraw' = TRUE
                 /\ out' = KeyReport(action(btn), 1)
            ELSE Dropped
    /\ last_written' = LastType(out', last_written)
    /\ UNCHANGED <<digitizer, pc, drm>>

\* TouchEvent::Motion(mtn)
TouchMotion(dev, slot, x, y) ==
    /\ pc = "drain"
    /\ IF ~FromDigitizer(dev)
       THEN Dropped
       ELSE IF slot \notin DOMAIN touches
       THEN Dropped
       ELSE LET btn == MotionButton(slot)
                hit == button_hit(NumButtons, btn, x, y)
            IN  /\ touches' = MotionTouches(slot, x, y)
                /\ IF MotionChanges(btn, hit)
                   THEN /\ button_state' = [button_state EXCEPT ![btn] = hit]
                        /\ needs_redraw' = TRUE
                        /\ out' = KeyReport(action(btn), Bool2Int(hit))
                   ELSE /\ out' = << >>
                        /\ UNCHANGED <<button_state, needs_redraw>>
    /\ last_written' = LastType(out', last_written)
    /\ UNCHANGED <<digitizer, pc, drm>>

\* TouchEvent::Up(up)
TouchUp(dev, slot) ==
    /\ pc = "drain"
    /\ IF ~FromDigitizer(dev)
       THEN Dropped
       ELSE IF slot \notin DOMAIN touches
       THEN Dropped
       ELSE LET btn == UpButton(slot)
            IN  /\ touches' = UpTouches(slot)
                /\ IF UpReleases(btn)
                   THEN /\ button_state' = [button_state EXCEPT ![btn] = FALSE]
                        /\ needs_redraw' = TRUE
                        /\ out' = KeyReport(action(btn), 0)
                   ELSE /\ out' = << >>
                        /\ UNCHANGED <<button_state, needs_redraw>>
    /\ last_written' = LastType(out', last_written)
    /\ UNCHANGED <<digitizer, pc, drm>>

\* any other event (touch cancel, touch frame, device removed, ...): `_ => {}`
OtherEvent ==
    /\ pc = "drain"
    /\ out' = << >>
    /\ UNCHANGED <<button_state, needs_redraw, digitizer, touches, pc, drm, last_written>>

(* ------------------------------------------------------------------ *)
(* History of the run (read by the properties only)                    *)
(* ------------------------------------------------------------------ *)
\* The record of a touch event.  handled: it came from the cached digitizer;
\* rep: it is a Motion that repeats the last event handled (same slot, same
\* position, no other event in between).  An event of another device is
\* recorded by its kind alone.
Event(kind, dev, slot, x, y) ==
    IF dev = digitizer
    THEN [kind |-> kind, handled |-> TRUE, slot |-> slot, pt |-> <<x, y>>,
          rep |-> (kind = "Motion" /\ last_motion = <<slot, x, y>>)]
    ELSE [kind |-> kind, handled |-> FALSE]

ObserveDown(dev, slot, x, y) ==
    LET btn == candidate(x)
        hits == dev = digitizer /\ button_hit(NumButtons, btn, x, y)
    IN  /\ step' = Event("Down", dev, slot, x, y)
        /\ last_motion' = NoMotion
        /\ ever_hit' = IF hits THEN ever_hit \cup {slot} ELSE ever_hit

\* a Motion or an Up of the slot
ObserveMoveOrUp(kind, dev, slot, x, y) ==
    /\ step' = Event(kind, dev, slot, x, y)
    /\ last_motion' = IF kind = "Motion" /\ dev = digitizer
                      THEN <<slot, x, y>>
                      ELSE NoMotion
    /\ UNCHANGED ever_hit

ObserveOther(kind) ==
    /\ step' = [kind |-> kind]
    /\ last_motion' = NoMotion
    /\ UNCHANGED ever_hit

\* watch follows one handled Down of the run, chosen freely (w) among all.
\* A Down that missed is followed until the next handled Down of its slot:
\*   [kind |-> "Miss", slot]
MissDown(dev, slot, x, y, w) ==
    LET handled == dev = digitizer
        hits == handled /\ button_hit(NumButtons, candidate(x), x, y)
    IN  IF ~handled THEN watch
        ELSE IF w /\ ~hits THEN [kind |-> "Miss", slot |-> slot]
        ELSE IF watch.kind = "Miss" /\ watch.slot = slot THEN NoWatch
        ELSE watch

\* A Down that hit btn is followed:  [kind |-> "Hit", slot, btn]
HoldDown(dev, slot, x, y, w) ==
    LET btn == candidate(x)
        hits == dev = digitizer /\ button_hit(NumButtons, btn, x, y)
    IN  IF w /\ hits
        THEN [kind |-> "Hit", slot |-> slot, btn |-> btn]
        ELSE watch

\* ... until a Motion or an Up is handled for its slot or for another slot
\* that the map binds to btn
HoldMoveOrUp(dev, slot) ==
    IF dev # digitizer \/ watch.kind = "None" THEN watch
    ELSE IF watch.slot = slot THEN NoWatch
    ELSE IF slot \in DOMAIN touches /\ touches[slot] = watch.btn THEN NoWatch
    ELSE watch

\* A Down that hit btn is followed for as long as no other event of its slot
\* and no event of another slot aimed at btn (a Down that hits btn, a Motion
\* or an Up of a slot the map binds to btn) is handled:
\*   [kind |-> "Hit", slot, btn]
\* When the Up of the slot ends it, the record is kept, with kind "Up", until
\* the next touch event of the digitizer.
TripDown(dev, slot, x, y, w) ==
    LET btn == candidate(x)
        handled == dev = digitizer
        hits == handled /\ button_hit(NumButtons, btn, x, y)
    IN  IF w /\ hits THEN [kind |-> "Hit", slot |-> slot, btn |-> btn]
        ELSE IF ~handled \/ watch.kind = "None" THEN watch
        ELSE IF watch.kind = "Up" \/ watch.slot = slot \/ (hits /\ btn = watch.btn)
        THEN NoWatch
        ELSE watch

TripMoveOrUp(kind, dev, slot) ==
    IF dev # digitizer \/ watch.kind = "None" THEN watch
    ELSE IF watch.kind = "Up" THEN NoWatch
    ELSE IF watch.slot = slot
    THEN IF kind = "Up" THEN [watch EXCEPT !.kind = "Up"] ELSE NoWatch
    ELSE IF slot \in DOMAIN touches /\ touches[slot] = watch.btn THEN NoWatch
    ELSE watch

TripCancel(dev, slot) ==
    IF dev = digitizer /\ watch.kind # "None" /\ watch.slot = slot
    THEN NoWatch
    ELSE watch

\* watch holds, for every key code of the layer, the value of the last key
\* event written for it (-1 before the first):  [kind |-> "Keys", last]
KeyCodes == {layer_buttons[i].action : i \in 1 .. Len(layer_buttons)}

LastKeys == IF watch.kind = "Keys" THEN watch.last ELSE [c \in KeyCodes |-> -1]

Logged(stream) ==
    LET keys(c) == {i \in 1 .. Len(stream) :
                        stream[i].type = "Key" /\ stream[i].code = c}
        latest(c) == CHOOSE i \in keys(c) : \A j \in keys(c) : j <= i
    IN  [kind |-> "Keys",
         last |-> [c \in KeyCodes |->
                      IF keys(c) = {} THEN LastKeys[c] ELSE stream[latest(c)].value]]

\* the Downs that can be followed: the handled Downs that hit
HitChoice(dev, x, y) ==
    IF dev = digitizer /\ button_hit(NumButtons, candidate(x), x, y)
    THEN BOOLEAN
    ELSE {FALSE}

\* the Downs that can be followed: the handled Downs that miss
MissChoice(dev, x, y) ==
    IF dev = digitizer /\ ~button_hit(NumButtons, candidate(x), x, y)
    THEN BOOLEAN
    ELSE {FALSE}

(* ------------------------------------------------------------------ *)
(* The input subsystem: which events the iterator can yield            *)
(* ------------------------------------------------------------------ *)
\* Per seat slot the Touch Bar delivers Down, then Motions, then Up or Cancel.
\* The events of the other device are dropped whatever their order, so their
\* order is left free.
CanDown(dev, slot) == dev = "TouchBar" => slot \notin contact
CanMove(dev, slot) == dev = "TouchBar" => slot \in contact
Touch(dev, slot) == IF dev = "TouchBar" THEN contact \cup {slot} ELSE contact
Lift(dev, slot) == IF dev = "TouchBar" THEN contact \ {slot} ELSE contact

(* ------------------------------------------------------------------ *)
(* One event of the batch: the handler, the input protocol, the record *)
(* ------------------------------------------------------------------ *)
DownEvent(dev, slot, x, y) ==
    /\ CanDown(dev, slot)
    /\ TouchDown(dev, slot, x, y)
    /\ ObserveDown(dev, slot, x, y)
    /\ contact' = Touch(dev, slot)

MotionEvent(dev, slot, x, y) ==
    /\ CanMove(dev, slot)
    /\ TouchMotion(dev, slot, x, y)
    /\ ObserveMoveOrUp("Motion", dev, slot, x, y)
    /\ UNCHANGED contact

UpEvent(dev, slot) ==
    /\ CanMove(dev, slot)
    /\ TouchUp(dev, slot)
    /\ ObserveMoveOrUp("Up", dev, slot, 0, 0)
    /\ contact' = Lift(dev, slot)

(* ------------------------------------------------------------------ *)
(* Specification                                                       *)
(* ------------------------------------------------------------------ *)
CancelEvent(dev, slot) ==
    /\ CanMove(dev, slot)
    /\ OtherEvent
    /\ ObserveOther("Cancel")
    /\ contact' = Lift(dev, slot)

Added ==
    \E dev \in Devices :
        /\ DeviceAdded(dev) /\ ObserveOther("Added")
        /\ UNCHANGED <<contact, watch>>

Down ==
    \E dev \in Devices, slot \in Slots, p \in Points :
        DownEvent(dev, slot, p[1], p[2]) /\ UNCHANGED watch

Motion ==
    \E dev \in Devices, slot \in Slots, p \in Points :
        MotionEvent(dev, slot, p[1], p[2]) /\ UNCHANGED watch

Up ==
    \E dev \in Devices, slot \in Slots :
        UpEvent(dev, slot) /\ UNCHANGED watch

\* a touch cancel ends the contact without an Up
Cancel ==
    \E dev \in Devices, slot \in Slots :
        CancelEvent(dev, slot) /\ UNCHANGED watch

\* touch frame, device removed, keyboard and pointer events
Other == OtherEvent /\ ObserveOther("Other") /\ UNCHANGED <<contact, watch>>

Next ==
    Redraw \/ Dispatch \/ EndBatch \/ Added \/ Down \/ Motion \/ Up \/ Cancel \/ Other

Spec == Init /\ [][Next]_vars

(* The same program, with watch following a Down that missed *)
DownMiss ==
    \E dev \in Devices, slot \in Slots, p \in Points :
        \E w \in MissChoice(dev, p[1], p[2]) :
            /\ DownEvent(dev, slot, p[1], p[2])
            /\ watch' = MissDown(dev, slot, p[1], p[2], w)

NextMiss ==
    Redraw \/ Dispatch \/ EndBatch \/ Added \/ DownMiss \/ Motion \/ Up \/ Cancel \/ Other

SpecMiss == Init /\ [][NextMiss]_vars

(* The same program, with watch following a Down that hit *)
DownHold ==
    \E dev \in Devices, slot \in Slots, p \in Points :
        \E w \in HitChoice(dev, p[1], p[2]) :
            /\ DownEvent(dev, slot, p[1], p[2])
            /\ watch' = HoldDown(dev, slot, p[1], p[2], w)

MotionHold ==
    \E dev \in Devices, slot \in Slots, p \in Points :
        MotionEvent(dev, slot, p[1], p[2]) /\ watch' = HoldMoveOrUp(dev, slot)

UpHold ==
    \E dev \in Devices, slot \in Slots :
        UpEvent(dev, slot) /\ watch' = HoldMoveOrUp(dev, slot)

NextHold ==
    Redraw \/ Dispatch \/ EndBatch \/ Added \/ DownHold \/ MotionHold \/ UpHold
        \/ Cancel \/ Other

SpecHold == Init /\ [][NextHold]_vars

(* The same program, with watch following an undisturbed Down and its Up *)
DownTrip ==
    \E dev \in Devices, slot \in Slots, p \in Points :
        \E w \in HitChoice(dev, p[1], p[2]) :
            /\ DownEvent(dev, slot, p[1], p[2])
            /\ watch' = TripDown(dev, slot, p[1], p[2], w)

MotionTrip ==
    \E dev \in Devices, slot \in Slots, p \in Points :
        MotionEvent(dev, slot, p[1], p[2]) /\ watch' = TripMoveOrUp("Motion", dev, slot)

UpTrip ==
    \E dev \in Devices, slot \in Slots :
        UpEvent(dev, slot) /\ watch' = TripMoveOrUp("Up", dev, slot)

CancelTrip ==
    \E dev \in Devices, slot \in Slots :
        CancelEvent(dev, slot) /\ watch' = TripCancel(dev, slot)

NextTrip ==
    Redraw \/ Dispatch \/ EndBatch \/ Added \/ DownTrip \/ MotionTrip \/ UpTrip
        \/ CancelTrip \/ Other

SpecTrip == Init /\ [][NextTrip]_vars

(* The same program, with watch holding the frame last presented *)
RedrawShow == RedrawBlock /\ watch' = Presented

NextShow ==
    RedrawShow \/ Dispatch \/ EndBatch \/ Added \/ Down \/ Motion \/ Up \/ Cancel \/ Other

SpecShow == Init /\ [][NextShow]_vars

(* The same program, with watch holding the last key event of every key code *)
DownKeys ==
    \E dev \in Devices, slot \in Slots, p \in Points :
        DownEvent(dev, slot, p[1], p[2]) /\ watch' = Logged(out')

MotionKeys ==
    \E dev \in Devices, slot \in Slots, p \in Points :
        MotionEvent(dev, slot, p[1], p[2]) /\ watch' = Logged(out')

UpKeys ==
    \E dev \in Devices, slot \in Slots :
        UpEvent(dev, slot) /\ watch' = Logged(out')

NextKeys ==
    Redraw \/ Dispatch \/ EndBatch \/ Added \/ DownKeys \/ MotionKeys \/ UpKeys
        \/ Cancel \/ Other

SpecKeys == Init /\ [][NextKeys]_vars

(* The same, for touch sequences that are well formed per slot: every contact
   of the Touch Bar is a Down, then Motions, then an Up (no touch cancel) *)
NextTaps ==
    Redraw \/ Dispatch \/ EndBatch \/ Added \/ DownKeys \/ MotionKeys \/ UpKeys
        \/ Other

SpecTaps == Init /\ [][NextTaps]_vars

(* The same program, with touches at the two ends of the strip *)
\* Touch positions (pixels):
\*   (0, 32)           the left end: bucket 0, left of button 0 (miss)
\*   (12, 32)          just inside the left edge of button 0 (11.88)
\*   (1990, 32)        inside button 11, the last one
\*   (2008 - 1/169, 32)  the right end: bucket 11, right of button 11 (miss)
EdgePoints == { Pt(0, 32), Pt(12, 32), Pt(1990, 32), <<DFR_WIDTH * XDen - 1, 32 * YDen>> }

DownEdge ==
    \E dev \in Devices, slot \in Slots, p \in EdgePoints :
        DownEvent(dev, slot, p[1], p[2]) /\ UNCHANGED watch

MotionEdge ==
    \E dev \in Devices, slot \in Slots, p \in EdgePoints :
        MotionEvent(dev, slot, p[1], p[2]) /\ UNCHANGED watch

NextEdge ==
    Redraw \/ Dispatch \/ EndBatch \/ Added \/ DownEdge \/ MotionEdge \/ Up
        \/ Cancel \/ Other

SpecEdge == Init /\ [][NextEdge]_vars

(* The whole process: try_open_card, then the loop, until the process exits *)
InitOpen ==
    /\ button_state = [i \in 0 .. (NumButtons - 1) |-> FALSE]
    /\ needs_redraw = TRUE
    /\ digitizer = NoDevice
    /\ touches = << >>
    /\ pc = "try_open_card"
    /\ drm \in {Unopened(size) : size \in Modes}
    /\ out = << >>
    /\ last_written = "None"
    /\ contact = {}
    /\ step = [kind |-> "Start"]
    /\ last_motion = NoMotion
    /\ ever_hit = {}
    /\ watch = NoWatch

\* what no step of try_open_card and no exit touches
Backstage ==
    UNCHANGED <<button_state, needs_redraw, digitizer, touches, out, last_written,
                contact, step, last_motion, ever_hit, watch>>

\* the process ends with a panic: the stack is unwound
Panics(why) ==
    /\ pc' = "exited"
    /\ drm' = [Unwind(drm) EXCEPT !.err = why]
    /\ Backstage

\* lines 124-148: the card is opened, the connected output and its first mode
\* are found
Discover ==
    /\ pc = "try_open_card"
    /\ pc' = "heuristic"
    /\ UNCHANGED drm
    /\ Backstage

\* lines 149-151; main unwraps the Err
Heuristic ==
    /\ pc = "heuristic"
    /\ IF LooksLikeTouchbar(drm.size)
       THEN pc' = "create_dumb_buffer" /\ UNCHANGED drm /\ Backstage
       ELSE Panics("NotATouchStrip")

\* line 154
CreateDumbBuffer ==
    /\ pc = "create_dumb_buffer"
    /\ pc' = "setup"
    /\ drm' = [drm EXCEPT !.db = "live", !.at = 1]
    /\ Backstage

\* lines 156-228: the next call succeeds
SetupStep ==
    /\ pc = "setup"
    /\ drm.at <= Len(SetupSteps)
    /\ drm' = [drm EXCEPT !.at = drm.at + 1,
                          !.fb = IF SetupSteps[drm.at] = "add_framebuffer"
                                 THEN "live" ELSE drm.fb]
    /\ UNCHANGED pc
    /\ Backstage

\* lines 154-228: a call fails and its unwrap() panics
SetupFail ==
    \/ /\ pc = "create_dumb_buffer"
       /\ Panics("create_dumb_buffer")
    \/ /\ pc = "setup"
       /\ drm.at <= Len(SetupSteps)
       /\ Panics(SetupSteps[drm.at])

\* line 231 and main lines 295-323: the handles move into the DrmBackend of main
Return ==
    /\ pc = "setup"
    /\ drm.at = Len(SetupSteps) + 1
    /\ pc' = "loop"
    /\ drm' = [drm EXCEPT !.owned = TRUE]
    /\ Backstage

\* an unwrap() of main fails while the loop runs (dispatch, map_dumb_buffer,
\* dirty_framebuffer, the write of emit)
Panic ==
    /\ pc \in {"loop", "dispatch", "drain"}
    /\ Panics("Panic")

\* the process is terminated from outside: no destructor runs
Killed ==
    /\ pc \in {"loop", "dispatch", "drain"}
    /\ pc' = "exited"
    /\ drm' = [drm EXCEPT !.err = "Killed"]
    /\ Backstage

NextOpen ==
    Discover \/ Heuristic \/ CreateDumbBuffer \/ SetupStep \/ SetupFail \/ Return
        \/ Panic \/ Killed \/ Next

SpecOpen == InitOpen /\ [][NextOpen]_vars

(* The hit test on its own: button_hit applied once to a point of a grid.
   watch holds the probe: the button count, the point, and the indices of
   the buttons for which button_hit(num, idx, x, y) is true *)
\* x of the grid (1/XDen px): the grid points next to both edges of every
\* button of a layer of num buttons (the edges themselves for num = 1 and
\* num = 12), the x of two sample touches, and the two ends of the strip
ProbeXs(num) ==
    LET sq == (num + 1) * (num + 1)
        l(i) == ((i * (num + 2) + 1) * DFR_WIDTH * XDen) \div sq
        r(i) == (((i + 1) * (num + 2)) * DFR_WIDTH * XDen) \div sq
    IN  UNION { {l(i) - 1, l(i), l(i) + 1, r(i) - 1, r(i), r(i) + 1} :
                    i \in 0 .. (num - 1) }
            \cup {0, 50 * XDen, 170 * XDen, DFR_WIDTH * XDen - 1}

\* y of the grid (1/YDen px): both edges of the vertical band (5.76 and
\* 58.24), their neighbours, the middle, the top and the bottom of the strip
ProbeYs == {0, 575, 576, 577, 3200, 5823, 5824, 5825, DFR_HEIGHT * YDen}

HitTest(num, x, y) ==
    /\ watch.kind = "None"
    /\ watch' = [kind |-> "Probe", num |-> num, pt |-> <<x, y>>,
                  hits |-> {idx \in 0 .. (num - 1) : button_hit(num, idx, x, y)},
                  btn |-> candidate(x)]
    /\ UNCHANGED <<button_state, needs_redraw, digitizer, touches, pc, drm, out,
                   last_written, contact, step, last_motion, ever_hit>>

Probe ==
    \E num \in HitNums :
        \E x \in ProbeXs(num), y \in ProbeYs : HitTest(num, x, y)

NextHit == Probe

SpecHit == Init /\ [][NextHit]_vars

(* ------------------------------------------------------------------ *)
(* Sanity                                                              *)
(* ------------------------------------------------------------------ *)
TypeOK ==
    /\ button_state \in [0 .. (NumButtons - 1) -> BOOLEAN]
    /\ needs_redraw \in BOOLEAN
    /\ digitizer \in Devices \cup {NoDevice}
    /\ DOMAIN touches \subseteq Slots
    /\ pc \in {"try_open_card", "heuristic", "create_dumb_buffer", "setup",
              "loop", "dispatch", "drain", "exited"}
    /\ drm.size \in Modes

(* ------------------------------------------------------------------ *)
(* Vocabulary of the properties                                        *)
(* ------------------------------------------------------------------ *)
TouchKinds == {"Down", "Motion", "Up"}

\* the two events a key transition of button k writes, spelled out
Report(k, value) ==
    << [type |-> "Key", code |-> layer_buttons[k + 1].action, value |-> value],
       [type |-> "Synchronize", code |-> "Report", value |-> 0] >>

\* the geometry of the twelve buttons, spelled out for the sample positions
Inside(k, pt) == button_hit(NumButtons, k, pt[1], pt[2])
Misses(pt) == ~Inside(candidate(pt[1]), pt)

\* stream holds a key-up of button k
HasKeyUp(stream, k) ==
    \E i \in 1 .. Len(stream) :
        /\ stream[i].type = "Key"
        /\ stream[i].code = layer_buttons[k + 1].action
        /\ stream[i].value = 0

\* the step taken handles a touch event of the digitizer of one of the kinds
Handles(st, kinds) == st.kind \in kinds /\ st.handled

\* the shades of a frame that shows the state vector v, spelled out
Shades(v) == [i \in 0 .. (NumButtons - 1) |-> IF v[i] THEN 567 ELSE 267]

\* the button whose action is the key code
ButtonOf(code) ==
    CHOOSE k \in 0 .. (NumButtons - 1) : layer_buttons[k + 1].action = code

\* the key events of a stream
KeyEvents(stream) == {stream[i] : i \in {j \in 1 .. Len(stream) : stream[j].type = "Key"}}

\* nothing the router owns changes and nothing is written
RouterIdle ==
    /\ touches' = touches
    /\ button_state' = button_state
    /\ needs_redraw' = needs_redraw
    /\ out' = << >>

(* ------------------------------------------------------------------ *)
(* C1: after an Up is handled for a slot that the map tracks, the slot *)
(* has no entry left in the slot-to-button map.                        *)
(* ------------------------------------------------------------------ *)
C1_UpUntracksSlot ==
    [][ (Handles(step', {"Up"}) /\ step'.slot \in DOMAIN touches)
            => step'.slot \notin DOMAIN touches' ]_vars

(* ------------------------------------------------------------------ *)
(* C2: once a Down of slot s has missed every button, no Motion and no *)
(* Up of slot s handled before the next Down of s writes a key event   *)
(* or changes button_state.                                            *)
(* ------------------------------------------------------------------ *)
C2_SilentAfterMiss ==
    [][ (/\ watch.kind = "Miss"
         /\ Handles(step', {"Motion", "Up"})
         /\ step'.slot = watch.slot)
            => (out' = << >> /\ button_state' = button_state) ]_vars

(* ------------------------------------------------------------------ *)
(* C3: round trip.  A Down that hits button k writes exactly           *)
(* key-down(action[k]) and a sync report; if the next event of the     *)
(* slot is its Up and no other event was aimed at button k in between, *)
(* the Up writes exactly key-up(action[k]) and a sync report.          *)
(* ------------------------------------------------------------------ *)
C3_RoundTrip ==
    [][ /\ (Handles(step', {"Down"}) /\ ~Misses(step'.pt))
            => out' = Report(candidate(step'.pt[1]), 1)
        /\ (/\ watch.kind = "Hit"
            /\ Handles(step', {"Up"})
            /\ step'.slot = watch.slot)
            => out' = Report(watch.btn, 0) ]_vars

\* the Up of a followed Down of button 1 has just written its release
C3_Witness ==
    /\ watch.kind = "Up"
    /\ watch.btn = 1
    /\ Handles(step, {"Up"})
    /\ step.slot = watch.slot
    /\ out = Report(1, 0)

(* ------------------------------------------------------------------ *)
(* C4: an Up of a tracked slot writes a key-up only if the button of   *)
(* the slot is active at that moment; when it is inactive (a Motion    *)
(* has released it) the Up writes nothing, leaves needs_redraw alone   *)
(* and leaves button_state unchanged.                                  *)
(* ------------------------------------------------------------------ *)
C4_UpSilentWhenInactive ==
    [][ (/\ Handles(step', {"Up"})
         /\ step'.slot \in DOMAIN touches
         /\ ~button_state[touches[step'.slot]])
            => (/\ out' = << >>
                /\ needs_redraw' = needs_redraw
                /\ button_state' = button_state) ]_vars

\* an Up of a tracked slot has been handled silently, with the frame of the
\* released button already redrawn
C4_Witness ==
    /\ Handles(step, {"Up"})
    /\ step.slot \in DOMAIN touches
    /\ ~button_state[touches[step.slot]]
    /\ out = << >>
    /\ ~needs_redraw

(* ------------------------------------------------------------------ *)
(* C5: Motion idempotence.  A Motion of a tracked slot that repeats    *)
(* the event handled just before it (in the same batch or in the batch *)
(* before) writes nothing, leaves button_state unchanged and leaves    *)
(* needs_redraw alone.                                                 *)
(* ------------------------------------------------------------------ *)
C5_MotionIdempotent ==
    [][ (/\ Handles(step', {"Motion"})
         /\ step'.rep
         /\ step'.slot \in DOMAIN touches)
            => (/\ out' = << >>
                /\ button_state' = button_state
                /\ needs_redraw' = needs_redraw) ]_vars

\* a Motion that dragged off the button of its slot has been repeated after
\* the frame of the release was redrawn
C5_Witness ==
    /\ Handles(step, {"Motion"})
    /\ step.rep
    /\ step.slot \in DOMAIN touches
    /\ ~Inside(touches[step.slot], step.pt)
    /\ out = << >>
    /\ ~needs_redraw

(* ------------------------------------------------------------------ *)
(* C6, as stated: after a Down of slot s hit button k, as long as no   *)
(* Motion and no Up of slot s is handled, button_state[k] is true and  *)
(* no key-up(action[k]) is written, whatever happens on other slots.   *)
(* ------------------------------------------------------------------ *)
C6_HeldWhateverOthersDo ==
    [][ (/\ watch.kind = "Hit"
         /\ ~(Handles(step', {"Motion", "Up"}) /\ step'.slot = watch.slot))
        => (button_state'[watch.btn] /\ ~HasKeyUp(out', watch.btn)) ]_vars

(* ------------------------------------------------------------------ *)
(* C6, amended: after a Down of slot s hit button k, as long as no     *)
(* Motion and no Up is handled for slot s or for any other slot that   *)
(* the map binds to button k, button_state[k] is true and no           *)
(* key-up(action[k]) is written.                                       *)
(* ------------------------------------------------------------------ *)
C6_HeldWhileButtonUndisturbed ==
    watch.kind = "Hit" => (~HasKeyUp(out, watch.btn) /\ button_state[watch.btn])

\* the contact of the followed Down was cancelled, and the Up of another slot
\* has released another button since
C6_Witness ==
    /\ watch.kind = "Hit"
    /\ watch.slot \notin contact
    /\ Handles(step, {"Up"})
    /\ step.slot # watch.slot
    /\ out # << >>
    /\ button_state[watch.btn]

(* ------------------------------------------------------------------ *)
(* C7: in the stream written to uinput every key event is immediately  *)
(* followed by a sync report: no step writes a key event without the   *)
(* report right after it, and the stream never ends on a key event.    *)
(* ------------------------------------------------------------------ *)
C7_KeyThenSync ==
    /\ \A i \in 1 .. Len(out) :
           out[i].type = "Key"
               => /\ i < Len(out)
                  /\ out[i + 1].type = "Synchronize"
                  /\ out[i + 1].code = "Report"
    /\ last_written # "Key"

\* a batch has ended after a release was written
C7_Witness ==
    /\ pc = "loop"
    /\ last_written = "Synchronize"
    /\ \E k \in 0 .. (NumButtons - 1) : ~button_state[k] /\ k \in {touches[s] : s \in DOMAIN touches}

(* ------------------------------------------------------------------ *)
(* C8: a Motion of a slot tracked on button idx never rebinds the      *)
(* slot: the map is unchanged, the only entry of button_state that can *)
(* change is idx, which becomes hit(12, idx, x, y), and the only key   *)
(* code written is action[idx].                                        *)
(* ------------------------------------------------------------------ *)
C8_MotionNeverRebinds ==
    [][ (Handles(step', {"Motion"}) /\ step'.slot \in DOMAIN touches)
            => LET idx == touches[step'.slot] IN
               /\ touches' = touches
               /\ button_state' = [button_state EXCEPT ![idx] = Inside(idx, step'.pt)]
               /\ \A i \in 1 .. Len(out') :
                      out'[i].type = "Key"
                          => out'[i].code = layer_buttons[idx + 1].action ]_vars

\* a slot has been dragged from its button onto another button, which stays
\* released
C8_Witness ==
    /\ Handles(step, {"Motion"})
    /\ step.slot \in DOMAIN touches
    /\ candidate(step.pt[1]) # touches[step.slot]
    /\ ~Misses(step.pt)
    /\ ~button_state[candidate(step.pt[1])]
    /\ out = Report(touches[step.slot], 0)

(* ------------------------------------------------------------------ *)
(* C9: a Down whose candidate index fails the hit test changes         *)
(* nothing (map, button_state, needs_redraw) and writes nothing; and a *)
(* slot that has never had a hitting Down is never in the map.         *)
(* ------------------------------------------------------------------ *)
C9_MissChangesNothing ==
    [][ /\ (Handles(step', {"Down"}) /\ Misses(step'.pt)) => RouterIdle
        /\ DOMAIN touches' \subseteq ever_hit' ]_vars

\* a Down has missed on a slot that was never tracked, while another slot is
\* tracked and the frame is up to date
C9_Witness ==
    /\ Handles(step, {"Down"})
    /\ Misses(step.pt)
    /\ step.slot \notin DOMAIN touches
    /\ DOMAIN touches # {}
    /\ ~needs_redraw

(* ------------------------------------------------------------------ *)
(* C10: a touch event whose device is not the cached digitizer (an     *)
(* event of another device, or any event before a device with the      *)
(* expected name was added) changes nothing and writes nothing.        *)
(* ------------------------------------------------------------------ *)
C10_OnlyDigitizerHandled ==
    [][ (step'.kind \in TouchKinds /\ ~step'.handled) => RouterIdle ]_vars

\* an event of another device has been dropped while the digitizer is cached,
\* a slot is tracked and its button is active
C10_Witness ==
    /\ step.kind \in TouchKinds
    /\ ~step.handled
    /\ digitizer = "TouchBar"
    /\ \E s \in DOMAIN touches : button_state[touches[s]]

\* a touch event has been dropped before any digitizer was cached
C10_WitnessEarly ==
    /\ step.kind \in TouchKinds
    /\ ~step.handled
    /\ digitizer = NoDevice

\* hit(N, i, x, y) of the specification, x = xn / XDen and y = yn / YDen,
\* all lengths in 1 / ((N+1)^2 * XDen) px and 1 / (100 * YDen) px:
\*   button_width = W/(N+1), spacing = (W - N*button_width)/(N+1),
\*   left_edge = i*(button_width + spacing) + spacing
\*   true iff x in [left_edge, left_edge + button_width]
\*        and y in [0.09*thickness, 0.91*thickness]
RefHit(N, i, xn, yn) ==
    LET unit == (N + 1) * (N + 1)
        width == 2008 * (N + 1) * XDen
        spacing == 2008 * XDen
        left == i * (width + spacing) + spacing
        x == xn * unit
        y == yn * 100
    IN  /\ left <= x /\ x <= left + width
        /\ 9 * 64 * YDen <= y /\ y <= 91 * 64 * YDen

(* ------------------------------------------------------------------ *)
(* C11: needs_redraw is set by every change of button_state and is     *)
(* cleared only by the redraw block, which presents a frame rendered   *)
(* from the current button_state; so whenever the loop is about to     *)
(* block in input.dispatch(), needs_redraw is false and the frame last *)
(* presented shows the current button_state.                           *)
(* ------------------------------------------------------------------ *)
C11_FrameFreshWhenBlocking ==
    /\ [](pc = "dispatch"
            => /\ ~needs_redraw
               /\ watch.kind = "Frame"
               /\ watch.shown = Shades(button_state))
    /\ [][ /\ button_state' # button_state => needs_redraw'
           /\ (needs_redraw /\ ~needs_redraw')
                => (/\ step'.kind = "Redraw"
                    /\ watch'.kind = "Frame"
                    /\ watch'.shown = Shades(button_state')) ]_vars

\* the loop is about to block after presenting a frame with a pressed button
\* over a frame that showed another button pressed
C11_Witness ==
    /\ pc = "dispatch"
    /\ step.kind = "Redraw"
    /\ button_state[1]
    /\ ~button_state[0]
    /\ 0 \in {touches[s] : s \in DOMAIN touches}

(* ------------------------------------------------------------------ *)
(* C12: button_hit(N, i, x, y) is true exactly when                    *)
(* left_edge <= x <= left_edge + button_width and                      *)
(* 0.09*thickness <= y <= 0.91*thickness, edges included.              *)
(* ------------------------------------------------------------------ *)
C12_HitIsReference ==
    watch.kind = "Probe"
        => watch.hits = {i \in 0 .. (watch.num - 1) :
                            RefHit(watch.num, i, watch.pt[1], watch.pt[2])}

(* ------------------------------------------------------------------ *)
(* C13: for every N >= 1 and every two distinct indices i, j below N   *)
(* no point is inside the hit region of button i and of button j.      *)
(* ------------------------------------------------------------------ *)
C13_RegionsDisjoint ==
    watch.kind = "Probe"
        => \A i \in watch.hits, j \in watch.hits : i = j

\* the probe is on the right edge of button 3 of 12, one spacing away from
\* button 4, and hits button 3
C13_Witness ==
    /\ watch.kind = "Probe"
    /\ watch.num = 12
    /\ watch.hits = {3}
    /\ RefHit(12, 3, watch.pt[1], watch.pt[2])
    /\ ~RefHit(12, 3, watch.pt[1] + 1, watch.pt[2])

(* ------------------------------------------------------------------ *)
(* C16: with N = 12 and W = 2008, for every point with 0 <= x < W and  *)
(* every i in 0..11, button_hit(12, i, x, y) implies                   *)
(* floor(x / (W/12)) = i.                                              *)
(* ------------------------------------------------------------------ *)
C16_BucketAgreesWithHit ==
    (/\ watch.kind = "Probe"
     /\ watch.num = 12
     /\ 0 <= watch.pt[1]
     /\ watch.pt[1] < 2008 * XDen)
        => \A i \in watch.hits : watch.btn = i

\* the probe is on the left edge of button 11, where the edge of the button is
\* nearest to the edge of its bucket
C16_Witness ==
    /\ watch.kind = "Probe"
    /\ watch.num = 12
    /\ watch.hits = {11}
    /\ watch.btn = 11
    /\ ~RefHit(12, 11, watch.pt[1] - 1, watch.pt[2])

(* ------------------------------------------------------------------ *)
(* C14, as stated: a first mode of size (2008, 64) passes the          *)
(* touch-strip heuristic and discovery goes on to allocate the buffer; *)
(* a first mode of size (1920, 1080) fails with NotATouchStrip.        *)
(* ------------------------------------------------------------------ *)
C14_WideModePasses ==
    [][ pc = "heuristic"
          => /\ drm.size = <<2008, 64>> => pc' = "create_dumb_buffer"
             /\ drm.size = <<1920, 1080>>
                  => (pc' = "exited" /\ drm'.err = "NotATouchStrip") ]_vars

(* ------------------------------------------------------------------ *)
(* C14, amended: a first mode of size (64, 2008) passes the heuristic  *)
(* (2008 / 64 = 31 >= 30) and discovery goes on to allocate the        *)
(* buffer; a first mode of size (1920, 1080) fails with NotATouchStrip.*)
(* ------------------------------------------------------------------ *)
C14_TallModePasses ==
    [][ pc = "heuristic"
          => /\ drm.size = <<64, 2008>> => pc' = "create_dumb_buffer"
             /\ drm.size = <<1920, 1080>>
                  => (pc' = "exited" /\ drm'.err = "NotATouchStrip") ]_vars

\* discovery has passed the heuristic with a mode of 64 x 2008 and has
\* allocated the buffer
C14_Witness ==
    /\ drm.size = <<64, 2008>>
    /\ pc = "setup"
    /\ drm.db = "live"
    /\ drm.at = 1

(* ------------------------------------------------------------------ *)
(* C15: on every exit of the process after the dumb buffer has been    *)
(* allocated, the framebuffer (if created) has been destroyed first    *)
(* and the dumb buffer second, each exactly once.                      *)
(* ------------------------------------------------------------------ *)
C15_ReleasedOnEveryExit ==
    (pc = "exited" /\ drm.db # "none")
        => drm.calls = (IF drm.fb # "none" THEN << "destroy_framebuffer" >> ELSE << >>)
                            \o << "destroy_dumb_buffer" >>

(* ------------------------------------------------------------------ *)
(* C17: no stuck keys.  For touch sequences that are well formed per   *)
(* slot, whenever every slot that received a Down has since received   *)
(* its Up, every entry of button_state is false and the last key event *)
(* written for every key code is not a press.                          *)
(* ------------------------------------------------------------------ *)
C17_NoStuckKeys ==
    contact = {}
        => /\ \A k \in 0 .. (NumButtons - 1) : ~button_state[k]
           /\ \A c \in KeyCodes : LastKeys[c] # 1

\* all contacts are up again after both slots were tracked and F1 and F2 were
\* both pressed and released
C17_Witness ==
    /\ contact = {}
    /\ Handles(step, {"Up"})
    /\ out # << >>
    /\ LastKeys["F1"] = 0
    /\ LastKeys["F2"] = 0
    /\ DOMAIN touches = Slots

(* ------------------------------------------------------------------ *)
(* C18: for every button k, button_state[k] is the value of the last   *)
(* key event written for action[k] (1 = true, 0 = false), and is false *)
(* when no key event was ever written for action[k].                   *)
(* ------------------------------------------------------------------ *)
C18_StateIsLastKey ==
    \A k \in 0 .. (NumButtons - 1) :
        button_state[k] <=> (LastKeys[layer_buttons[k + 1].action] = 1)

\* a Motion has released the button of its slot while another button is held
C18_Witness ==
    /\ Handles(step, {"Motion"})
    /\ LastKeys["F1"] = 0
    /\ LastKeys["F2"] = 1
    /\ ~button_state[0]
    /\ button_state[1]

(* ------------------------------------------------------------------ *)
(* C19, as stated: for every key code the key events written strictly  *)
(* alternate between press and release, starting with a press: a press *)
(* is never written for a button whose state is already true and a     *)
(* release never for a button whose state is already false.            *)
(* ------------------------------------------------------------------ *)
C19_KeysAlternate ==
    [][ \A e \in KeyEvents(out') :
            IF e.value = 1
            THEN LastKeys[e.code] # 1 /\ ~button_state[ButtonOf(e.code)]
            ELSE LastKeys[e.code] = 1 /\ button_state[ButtonOf(e.code)] ]_vars

(* ------------------------------------------------------------------ *)
(* C19, amended: a release is written only for a button whose state   *)
(* is true and whose last key event is a press; a press is written by  *)
(* a Motion only for a button whose state is false and whose last key  *)
(* event is not a press; a Down writes its press whatever the state of *)
(* the button, so only a Down can repeat a press.                      *)
(* ------------------------------------------------------------------ *)
C19_OnlyDownRepeatsPress ==
    [][ \A e \in KeyEvents(out') :
            IF e.value = 1
            THEN \/ LastKeys[e.code] # 1 /\ ~button_state[ButtonOf(e.code)]
                 \/ step'.kind = "Down"
            ELSE LastKeys[e.code] = 1 /\ button_state[ButtonOf(e.code)] ]_vars

\* a Down has written a press of F1 while another slot is down and bound to
\* button 0, and no other key was ever pressed
C19_Witness ==
    /\ Handles(step, {"Down"})
    /\ out = Report(0, 1)
    /\ contact = Slots
    /\ \A s \in Slots : s \in DOMAIN touches /\ touches[s] = 0
    /\ LastKeys["F2"] = -1

(* ------------------------------------------------------------------ *)
(* C20: index safety.  For touch events with 0 <= x < W, the candidate *)
(* index accepted by a Down and every value stored in the slot map lie *)
(* in 0..11, the indices of button_state and of the button list.       *)
(* ------------------------------------------------------------------ *)
C20_IndicesInRange ==
    /\ [](\A s \in DOMAIN touches : touches[s] \in 0 .. 11)
    /\ [][ (Handles(step', {"Down"}) /\ out' # << >>)
              => (/\ 0 <= step'.pt[1] /\ step'.pt[1] < 2008 * XDen
                  /\ candidate(step'.pt[1]) \in 0 .. 11) ]_vars

\* a Down near the right end of the strip has been accepted for the last
\* button
C20_Witness ==
    /\ Handles(step, {"Down"})
    /\ out = Report(11, 1)
    /\ touches[step.slot] = 11
    /\ button_state[11]

====
